---- MODULE Spec2Model ----
(***************************************************************************)
(* Model of EventsGateway (src/src/events/events.gateway.ts): the WebRTC   *)
(* signaling relay that keeps a Map of room id -> Set of socket ids and    *)
(* relays offer / answer / ice-candidate between sockets.                  *)
(*                                                                         *)
(* The source file holds two declarations of the class.  Both are          *)
(* modelled; the variable "variant" says which one the running build uses  *)
(* (1: lines 17-172, 2: lines 191-323) and never changes.                  *)
(***************************************************************************)
EXTENDS Integers, Sequences, FiniteSets

\* Number of connections the transport opens during a run.
MaxConns == 3

\* private readonly MAX_PARTICIPANTS = 2
MAX_PARTICIPANTS == 2

\* Socket ids the transport hands out, in the order it hands them out.
SocketIds == <<"c1", "c2", "c3", "c4", "c5", "c6">>

Conns == {SocketIds[i] : i \in 1..MaxConns}

\* Room ids callers choose.  "c1" is also the id of the first socket: room
\* ids and socket ids are names in the same channel namespace of the
\* transport.
RoomNames == {"x", "c1"}

(***************************************************************************)
(* JavaScript values that arrive as the roomId argument.                   *)
(***************************************************************************)
Str(v) == [t |-> "string", v |-> v]

Num(v) == [t |-> "number", v |-> v]

Undefined == [t |-> "undefined", v |-> "undefined"]

\* !x is false exactly for the truthy values.
Truthy(x) ==
    CASE x.t = "string" -> x.v # ""
      [] x.t = "number" -> x.v \notin {"0", "NaN"}
      [] OTHER -> FALSE

TypeOf(x) == x.t

ValidRoomIds == {Str(r) : r \in RoomNames}

InvalidRoomIds == {Str(""), Num("7"), Undefined}

JoinInputs == ValidRoomIds \cup InvalidRoomIds

(***************************************************************************)
(* Payloads of offer / answer / ice-candidate.  The bodies are opaque.     *)
(***************************************************************************)
Bodies == { [offer |-> "sdp1", answer |-> "sdp2", candidate |-> "ice1"] }

RelayRoomIds == ValidRoomIds

Payloads ==
    { [roomId |-> r, targetPeerId |-> t,
       offer |-> b.offer, answer |-> b.answer, candidate |-> b.candidate] :
         r \in RelayRoomIds, t \in Conns, b \in Bodies }

VARIABLES
    variant,    \* which declaration of EventsGateway runs
    nextConn,   \* number of socket ids handed out so far
    connected,  \* sockets currently connected
    sids,       \* transport: socket id -> channels the socket is subscribed to
    rooms,      \* this.rooms: the Map's entries [key, val] in insertion order
    before,     \* this.rooms as it was when the handler that ran last began
    last,       \* the inbound event handled last
    out,        \* the emits of the handler that ran last, in order
    tracking,   \* whether the sockets' views are recorded (fixed at Init)
    view        \* per socket m and id c: the most recent of new-peer{c} and
                \* peer-disconnected{c} that m has received

vars == <<variant, nextConn, connected, sids, rooms, before, last, out, tracking, view>>

(***************************************************************************)
(* Set<string>.  A room never holds more than MAX_PARTICIPANTS = 2 ids, so *)
(* every forEach over a Set below visits at most one id besides the        *)
(* caller's: the insertion order of a Set is never observable and the Set  *)
(* is kept as a set.                                                       *)
(***************************************************************************)
SetHas(s, x) == x \in s

SetAdd(s, x) == s \cup {x}

SetDelete(s, x) == s \ {x}

SetSize(s) == Cardinality(s)

\* The order in which forEach visits the ids of a Set.
RECURSIVE Visit(_)
Visit(s) == IF s = {} THEN <<>>
            ELSE LET x == CHOOSE y \in s : TRUE IN <<x>> \o Visit(s \ {x})

(***************************************************************************)
(* Map<string, Set<string>> in insertion order.                            *)
(***************************************************************************)
MapHas(m, k) == \E i \in 1..Len(m) : m[i].key = k

MapGet(m, k) == m[CHOOSE i \in 1..Len(m) : m[i].key = k].val

MapSet(m, k, v) ==
    IF MapHas(m, k)
    THEN [i \in 1..Len(m) |-> IF m[i].key = k THEN [key |-> k, val |-> v] ELSE m[i]]
    ELSE Append(m, [key |-> k, val |-> v])

MapKeys(m) == {m[i].key : i \in 1..Len(m)}

\* The member set of room r in store m ({} when the room is absent).
MembersIn(m, r) == IF MapHas(m, r) THEN MapGet(m, r) ELSE {}

Members(r) == MembersIn(rooms, r)

MembersBefore(r) == MembersIn(before, r)

(***************************************************************************)
(* The transport's channels.                                               *)
(***************************************************************************)
\* The sockets an emit to channel name reaches.
Subscribers(ch, name) == {c \in DOMAIN ch : name \in ch[c]}

\* client.join(roomId)
SocketJoin(ch, client, name) == [ch EXCEPT ![client] = @ \cup {name}]

\* One emit: the name it addresses, the sockets it reaches, the event.
Emit(to, rcv, ev, data) == [to |-> to, rcv |-> rcv, ev |-> ev, data |-> data]

\* this.server.to(name).emit(ev, data)
ServerTo(ch, name, ev, data) == Emit(name, Subscribers(ch, name), ev, data)

\* client.to(name).emit(ev, data): the channel without the sending socket
ClientTo(ch, client, name, ev, data) ==
    Emit(name, Subscribers(ch, name) \ {client}, ev, data)

\* client.emit(ev, data)
ClientEmit(client, ev, data) == Emit(client, {client}, ev, data)

(***************************************************************************)
(* handleJoinRoom                                                          *)
(***************************************************************************)
\* Mutant: the typeof test left out.
InvalidRoomIdNoTypeof(roomId) == ~Truthy(roomId)

\* if (!roomId || typeof roomId !== 'string')
InvalidRoomId(roomId) == ~Truthy(roomId) \/ TypeOf(roomId) # "string"

\* Mutant: the handler works on the Set as it was read before the handler
\* that ran just before it wrote the store (a read across a yield point).
GetOrNewSetStale(m, k) == IF MapHas(before, k) THEN MapGet(before, k) ELSE {}

\* this.rooms.get(roomId) || new Set()
GetOrNewSet(m, k) == IF MapHas(m, k) THEN MapGet(m, k) ELSE {}

\* Mutant: the capacity test off by one (>, not >=).
RoomIsFullOffByOne(participants) == SetSize(participants) > MAX_PARTICIPANTS

\* if (participants.size >= this.MAX_PARTICIPANTS)
RoomIsFull(participants) == SetSize(participants) >= MAX_PARTICIPANTS

\* catch (error) { client.emit('room-error', { error: error.message }) }
JoinFailed(client, message) ==
    /\ out' = <<ClientEmit(client, "room-error", [error |-> message])>>
    /\ UNCHANGED <<rooms, sids>>

\* Mutant: the test peerId !== client.id left out.
RECURSIVE NotifyPeersNoSelfCheck(_, _, _)
NotifyPeersNoSelfCheck(ch, visit, client) ==
    IF visit = <<>> THEN <<>>
    ELSE << ServerTo(ch, Head(visit), "new-peer", [peerId |-> client]),
            ClientEmit(client, "new-peer", [peerId |-> Head(visit)]) >>
         \o NotifyPeersNoSelfCheck(ch, Tail(visit), client)

\* participants.forEach((peerId) => { if (peerId !== client.id) { ... } })
RECURSIVE NotifyPeers(_, _, _)
NotifyPeers(ch, visit, client) ==
    IF visit = <<>> THEN <<>>
    ELSE LET peerId == Head(visit) IN
         (IF peerId # client
          THEN << ServerTo(ch, peerId, "new-peer", [peerId |-> client]),
                  ClientEmit(client, "new-peer", [peerId |-> peerId]) >>
          ELSE <<>>)
         \o NotifyPeers(ch, Tail(visit), client)

\* The participants after participants.add(client.id)
AddParticipant(participants, client) == SetAdd(participants, client)

\* Mutant: the peers are notified before room-joined is emitted.
handleJoinRoomNotifiesFirst(client, roomId) ==
    IF InvalidRoomId(roomId) THEN JoinFailed(client, "Invalid room ID")
    ELSE LET participants == GetOrNewSet(rooms, roomId.v) IN
         IF RoomIsFull(participants) THEN JoinFailed(client, "Room is full")
         ELSE LET joined == SocketJoin(sids, client, roomId.v)
                  added == AddParticipant(participants, client)
              IN /\ sids' = joined
                 /\ rooms' = MapSet(rooms, roomId.v, added)
                 /\ out' = NotifyPeers(joined, Visit(added), client)
                           \o <<ClientEmit(client, "room-joined",
                                           [success |-> TRUE, roomId |-> roomId.v])>>

\* First declaration, lines 53-88.
handleJoinRoom(client, roomId) ==
    IF InvalidRoomId(roomId) THEN JoinFailed(client, "Invalid room ID")
    ELSE LET participants == GetOrNewSet(rooms, roomId.v) IN
         IF RoomIsFull(participants) THEN JoinFailed(client, "Room is full")
         ELSE LET joined == SocketJoin(sids, client, roomId.v)
                  added == AddParticipant(participants, client)
              IN /\ sids' = joined
                 /\ rooms' = MapSet(rooms, roomId.v, added)
                 /\ out' = <<ClientEmit(client, "room-joined",
                                        [success |-> TRUE, roomId |-> roomId.v])>>
                           \o NotifyPeers(joined, Visit(added), client)

\* Second declaration, lines 220-248.
handleJoinRoomV2(client, roomId) ==
    IF InvalidRoomId(roomId) THEN JoinFailed(client, "Invalid room ID")
    ELSE LET participants == GetOrNewSet(rooms, roomId.v) IN
         IF RoomIsFull(participants) THEN JoinFailed(client, "Room is full")
         ELSE LET joined == SocketJoin(sids, client, roomId.v)
                  added == AddParticipant(participants, client)
              IN /\ sids' = joined
                 /\ rooms' = MapSet(rooms, roomId.v, added)
                 /\ out' = <<ClientEmit(client, "room-joined",
                                        [success |-> TRUE, roomId |-> roomId.v])>>
                           \o (IF SetSize(added) > 1
                               THEN <<ClientTo(joined, client, roomId.v, "new-peer",
                                               [peerId |-> client])>>
                               ELSE <<>>)

(***************************************************************************)
(* cleanupClient                                                           *)
(***************************************************************************)
\* Mutant: the emptiness test written for the size before the delete.
BecameEmptyStale(participants) == SetSize(participants) = 1

\* if (participants.size === 0)
BecameEmpty(participants) == SetSize(participants) = 0

\* participants.forEach((peerId) => this.server.to(peerId).emit('peer-disconnected', ...))
RECURSIVE NotifyRemaining(_, _, _)
NotifyRemaining(ch, visit, clientId) ==
    IF visit = <<>> THEN <<>>
    ELSE <<ServerTo(ch, Head(visit), "peer-disconnected", [peerId |-> clientId])>>
         \o NotifyRemaining(ch, Tail(visit), clientId)

\* Mutant: the emptied room is left in the Map.
CleanupEntryKeepsRoom(ch, e, clientId) ==
    IF SetHas(e.val, clientId)
    THEN [rooms |-> <<[key |-> e.key, val |-> SetDelete(e.val, clientId)]>>,
          out |-> NotifyRemaining(ch, Visit(SetDelete(e.val, clientId)), clientId)]
    ELSE [rooms |-> <<e>>, out |-> <<>>]

\* Mutant: the room is deleted as soon as the client was in it, whoever
\* remains.
CleanupEntryDropsRoom(ch, e, clientId) ==
    IF SetHas(e.val, clientId)
    THEN [rooms |-> <<>>, out |-> <<>>]
    ELSE [rooms |-> <<e>>, out |-> <<>>]

\* Mutant: the client is only taken out of the rooms it is alone in.
CleanupEntryOnlyAlone(ch, e, clientId) ==
    IF SetHas(e.val, clientId) /\ BecameEmpty(SetDelete(e.val, clientId))
    THEN [rooms |-> <<>>, out |-> <<>>]
    ELSE [rooms |-> <<e>>, out |-> <<>>]

\* One callback of this.rooms.forEach, first declaration (lines 35-50): what
\* is left of the entry in the Map, and what is emitted.
CleanupEntry(ch, e, clientId) ==
    IF SetHas(e.val, clientId)
    THEN LET remaining == SetDelete(e.val, clientId) IN
         IF BecameEmpty(remaining)
         THEN [rooms |-> <<>>, out |-> <<>>]
         ELSE [rooms |-> <<[key |-> e.key, val |-> remaining]>>,
               out |-> NotifyRemaining(ch, Visit(remaining), clientId)]
    ELSE [rooms |-> <<e>>, out |-> <<>>]

\* One callback of this.rooms.forEach, second declaration (lines 209-217).
CleanupEntryV2(ch, e, clientId) ==
    IF SetHas(e.val, clientId)
    THEN LET remaining == SetDelete(e.val, clientId) IN
         IF BecameEmpty(remaining)
         THEN [rooms |-> <<>>, out |-> <<>>]
         ELSE [rooms |-> <<[key |-> e.key, val |-> remaining]>>, out |-> <<>>]
    ELSE [rooms |-> <<e>>, out |-> <<>>]

\* this.rooms.forEach(...) from entry i on.
RECURSIVE cleanupClient(_, _, _, _)
cleanupClient(ch, m, i, clientId) ==
    IF i > Len(m) THEN [rooms |-> <<>>, out |-> <<>>]
    ELSE LET here == CleanupEntry(ch, m[i], clientId)
             rest == cleanupClient(ch, m, i + 1, clientId)
         IN [rooms |-> here.rooms \o rest.rooms, out |-> here.out \o rest.out]

RECURSIVE cleanupClientV2(_, _, _, _)
cleanupClientV2(ch, m, i, clientId) ==
    IF i > Len(m) THEN [rooms |-> <<>>, out |-> <<>>]
    ELSE LET here == CleanupEntryV2(ch, m[i], clientId)
             rest == cleanupClientV2(ch, m, i + 1, clientId)
         IN [rooms |-> here.rooms \o rest.rooms, out |-> here.out \o rest.out]

\* The transport has closed the socket (it has left every channel) when it
\* calls handleDisconnect.
handleDisconnect(client) ==
    LET left == [sids EXCEPT ![client] = {}]
        done == IF variant = 1 THEN cleanupClient(left, rooms, 1, client)
                               ELSE cleanupClientV2(left, rooms, 1, client)
    IN /\ sids' = left
       /\ rooms' = done.rooms
       /\ out' = done.out

\* handleConnection only logs; the transport has subscribed the socket to the
\* channel named by its own id.
handleConnection(client) ==
    /\ sids' = [sids EXCEPT ![client] = {client}]
    /\ out' = <<>>
    /\ UNCHANGED rooms

(***************************************************************************)
(* handleOffer, handleAnswer, handleIceCandidate                           *)
(***************************************************************************)
\* Mutant: any existing room passes (return !!participants).
validateRoomExists(clientId, roomId) ==
    roomId.t = "string" /\ MapHas(rooms, roomId.v)

validateRoomParticipant(clientId, roomId) ==
    IF roomId.t = "string" /\ MapHas(rooms, roomId.v)
    THEN SetHas(MapGet(rooms, roomId.v), clientId)
    ELSE FALSE

\* catch (error) { client.emit('signaling-error', { error: error.message }) }
SignalingFailed(client, message) ==
    out' = <<ClientEmit(client, "signaling-error", [error |-> message])>>

\* Mutant: the target must be a member of the room as well.
handleOfferChecksTarget(client, payload) ==
    /\ IF \/ ~validateRoomParticipant(client, payload.roomId)
          \/ ~validateRoomParticipant(payload.targetPeerId, payload.roomId)
       THEN SignalingFailed(client, "Not a room participant")
       ELSE out' = <<ServerTo(sids, payload.targetPeerId, "offer",
                              [offer |-> payload.offer, senderId |-> client])>>
    /\ UNCHANGED <<rooms, sids>>

handleOffer(client, payload) ==
    /\ IF ~validateRoomParticipant(client, payload.roomId)
       THEN SignalingFailed(client, "Not a room participant")
       ELSE out' = <<ServerTo(sids, payload.targetPeerId, "offer",
                              [offer |-> payload.offer, senderId |-> client])>>
    /\ UNCHANGED <<rooms, sids>>

\* Mutant: the answer handler, pasted from the offer handler, still forwards
\* payload.offer.
handleAnswerForwardsOffer(client, payload) ==
    /\ IF ~validateRoomParticipant(client, payload.roomId)
       THEN SignalingFailed(client, "Not a room participant")
       ELSE out' = <<ServerTo(sids, payload.targetPeerId, "answer",
                              [answer |-> payload.offer, senderId |-> client])>>
    /\ UNCHANGED <<rooms, sids>>

handleAnswer(client, payload) ==
    /\ IF ~validateRoomParticipant(client, payload.roomId)
       THEN SignalingFailed(client, "Not a room participant")
       ELSE out' = <<ServerTo(sids, payload.targetPeerId, "answer",
                              [answer |-> payload.answer, senderId |-> client])>>
    /\ UNCHANGED <<rooms, sids>>

\* Mutant: a sender that is not in the room is put into it, then relayed.
handleIceCandidateAutoJoin(client, payload) ==
    /\ out' = <<ServerTo(sids, payload.targetPeerId, "ice-candidate",
                         [candidate |-> payload.candidate, senderId |-> client])>>
    /\ rooms' = IF validateRoomParticipant(client, payload.roomId) THEN rooms
                ELSE MapSet(rooms, payload.roomId.v,
                            SetAdd(GetOrNewSet(rooms, payload.roomId.v), client))
    /\ UNCHANGED sids

handleIceCandidate(client, payload) ==
    /\ IF ~validateRoomParticipant(client, payload.roomId)
       THEN SignalingFailed(client, "Not a room participant")
       ELSE out' = <<ServerTo(sids, payload.targetPeerId, "ice-candidate",
                              [candidate |-> payload.candidate, senderId |-> client])>>
    /\ UNCHANGED <<rooms, sids>>

handleOfferV2(client, payload) ==
    /\ IF ~validateRoomParticipant(client, payload.roomId)
       THEN SignalingFailed(client, "Not a room participant")
       ELSE out' = <<ClientTo(sids, client, payload.targetPeerId, "offer",
                              [offer |-> payload.offer, senderId |-> client])>>
    /\ UNCHANGED <<rooms, sids>>

handleAnswerV2(client, payload) ==
    /\ IF ~validateRoomParticipant(client, payload.roomId)
       THEN SignalingFailed(client, "Not a room participant")
       ELSE out' = <<ClientTo(sids, client, payload.targetPeerId, "answer",
                              [answer |-> payload.answer, senderId |-> client])>>
    /\ UNCHANGED <<rooms, sids>>

handleIceCandidateV2(client, payload) ==
    /\ IF ~validateRoomParticipant(client, payload.roomId)
       THEN SignalingFailed(client, "Not a room participant")
       ELSE out' = <<ClientTo(sids, client, payload.targetPeerId, "ice-candidate",
                              [candidate |-> payload.candidate, senderId |-> client])>>
    /\ UNCHANGED <<rooms, sids>>

(***************************************************************************)
(* What the sockets have been told about their peers.                      *)
(***************************************************************************)
NoView == [m \in Conns |-> [c \in Conns |-> "none"]]

\* The view after one emit: a peer-disconnected{c} that reaches a socket
\* which was not told new-peer{c} before is kept apart as "unannounced".
ObserveEmit(v, e) ==
    IF e.ev \notin {"new-peer", "peer-disconnected"} THEN v
    ELSE [m \in Conns |->
            IF m \notin e.rcv THEN v[m]
            ELSE [v[m] EXCEPT ![e.data.peerId] =
                     IF e.ev = "new-peer" THEN "new-peer"
                     ELSE IF @ = "new-peer" THEN "peer-disconnected"
                     ELSE "unannounced"]]

\* The view after the emits o, in order.
RECURSIVE Observe(_, _)
Observe(v, o) == IF o = <<>> THEN v ELSE Observe(ObserveEmit(v, Head(o)), Tail(o))

\* The views after the emits o of a handler run for `client`; a socket that
\* has disconnected receives nothing more and its view is dropped.
Delivered(o, client, gone) ==
    IF ~tracking THEN view
    ELSE IF gone THEN [Observe(view, o) EXCEPT ![client] = NoView[client]]
    ELSE Observe(view, o)

(***************************************************************************)
(* The inbound events.                                                     *)
(***************************************************************************)
None == [t |-> "none", v |-> "none"]

Event(op, client, payload) == [op |-> op, client |-> client, payload |-> payload]

Init ==
    /\ variant \in {1, 2}
    /\ nextConn = 0
    /\ connected = {}
    /\ sids = [c \in Conns |-> {}]
    /\ rooms = <<>>
    /\ before = <<>>
    /\ tracking = FALSE
    /\ view = NoView
    /\ last = Event("start", "-", None)
    /\ out = <<>>

\* The same start, with the sockets' views recorded.
InitView ==
    /\ variant \in {1, 2}
    /\ nextConn = 0
    /\ connected = {}
    /\ sids = [c \in Conns |-> {}]
    /\ rooms = <<>>
    /\ before = <<>>
    /\ tracking = TRUE
    /\ view = NoView
    /\ last = Event("start", "-", None)
    /\ out = <<>>

Connect ==
    /\ nextConn < MaxConns
    /\ LET client == SocketIds[nextConn + 1] IN
       /\ nextConn' = nextConn + 1
       /\ connected' = connected \cup {client}
       /\ handleConnection(client)
       /\ last' = Event("connect", client, None)
       /\ before' = rooms
       /\ view' = Delivered(out', client, FALSE)
    /\ UNCHANGED <<variant, tracking>>

Disconnect(client) ==
    /\ client \in connected
    /\ connected' = connected \ {client}
    /\ handleDisconnect(client)
    /\ last' = Event("disconnect", client, None)
    /\ before' = rooms
    /\ view' = Delivered(out', client, TRUE)
    /\ UNCHANGED <<variant, tracking, nextConn>>

JoinRoom(client, roomId) ==
    /\ client \in connected
    /\ IF variant = 1 THEN handleJoinRoom(client, roomId)
                      ELSE handleJoinRoomV2(client, roomId)
    /\ last' = Event("join-room", client, roomId)
    /\ before' = rooms
    /\ view' = Delivered(out', client, FALSE)
    /\ UNCHANGED <<variant, tracking, nextConn, connected>>

Offer(client, payload) ==
    /\ client \in connected
    /\ IF variant = 1 THEN handleOffer(client, payload)
                      ELSE handleOfferV2(client, payload)
    /\ last' = Event("offer", client, payload)
    /\ before' = rooms
    /\ view' = Delivered(out', client, FALSE)
    /\ UNCHANGED <<variant, tracking, nextConn, connected>>

Answer(client, payload) ==
    /\ client \in connected
    /\ IF variant = 1 THEN handleAnswer(client, payload)
                      ELSE handleAnswerV2(client, payload)
    /\ last' = Event("answer", client, payload)
    /\ before' = rooms
    /\ view' = Delivered(out', client, FALSE)
    /\ UNCHANGED <<variant, tracking, nextConn, connected>>

IceCandidate(client, payload) ==
    /\ client \in connected
    /\ IF variant = 1 THEN handleIceCandidate(client, payload)
                      ELSE handleIceCandidateV2(client, payload)
    /\ last' = Event("ice-candidate", client, payload)
    /\ before' = rooms
    /\ view' = Delivered(out', client, FALSE)
    /\ UNCHANGED <<variant, tracking, nextConn, connected>>

Next ==
    \/ Connect
    \/ \E c \in Conns : Disconnect(c)
    \/ \E c \in Conns, r \in JoinInputs : JoinRoom(c, r)
    \/ \E c \in Conns, p \in Payloads : Offer(c, p)
    \/ \E c \in Conns, p \in Payloads : Answer(c, p)
    \/ \E c \in Conns, p \in Payloads : IceCandidate(c, p)

Spec == Init /\ [][Next]_vars

SpecView == InitView /\ [][Next]_vars

(***************************************************************************)
(* Properties.                                                             *)
(***************************************************************************)
RelayKinds == {"offer", "answer", "ice-candidate"}

RoomError(client, message) == ClientEmit(client, "room-error", [error |-> message])

SignalingError(client, message) ==
    ClientEmit(client, "signaling-error", [error |-> message])

RoomJoined(client, r) ==
    ClientEmit(client, "room-joined", [success |-> TRUE, roomId |-> r])

\* How many emits of the last handler delivered event ev with data to socket c.
Received(c, ev, data) ==
    Cardinality({i \in 1..Len(out) :
                    c \in out[i].rcv /\ out[i].ev = ev /\ out[i].data = data})

\* The emits of the last handler that carry event ev.
Emits(ev) == {i \in 1..Len(out) : out[i].ev = ev}

JoinSucceeded ==
    /\ last.op = "join-room"
    /\ \E i \in 1..Len(out) : out[i].ev = "room-joined"

\* C1: every room of the Room Store has at most MAX_PARTICIPANTS (2) members
\* in every reachable state, and a join-room never removes a member from any
\* room.
C1_Capacity ==
    /\ \A r \in MapKeys(rooms) : Cardinality(Members(r)) <= MAX_PARTICIPANTS
    /\ last.op = "join-room" =>
          \A r \in MapKeys(before) : MembersBefore(r) \subseteq Members(r)

\* A second socket has just joined a room that held one member.
C1_Witness ==
    /\ JoinSucceeded
    /\ Cardinality(MembersBefore(last.payload.v)) = 1
    /\ Cardinality(Members(last.payload.v)) = 2

\* C2: a room id is in the Room Store if and only if its member set is not
\* empty, also after a disconnect that takes one socket out of several rooms.
C2_NoEmptyRoom ==
    /\ \A i \in 1..Len(rooms) : rooms[i].val # {}
    /\ \A r \in RoomNames : MapHas(rooms, r) <=> Members(r) # {}

\* A disconnect has taken one socket out of two rooms, one of which it left
\* empty and one of which keeps a member.
C2_Witness ==
    /\ last.op = "disconnect"
    /\ \E r1, r2 \in MapKeys(before) :
          /\ r1 # r2
          /\ MembersBefore(r1) = {last.client}
          /\ last.client \in MembersBefore(r2)
          /\ MembersBefore(r2) # {last.client}
          /\ ~MapHas(rooms, r1)
          /\ MapHas(rooms, r2)

\* C3: a join-room by a socket that is not a member, on a room that holds 2
\* members, emits room-error 'Room is full' to the caller and nothing else,
\* and leaves the Room Store as it was.
C3_RoomFull ==
    ( /\ last.op = "join-room"
      /\ last.payload \in ValidRoomIds
      /\ Cardinality(MembersBefore(last.payload.v)) = 2
      /\ last.client \notin MembersBefore(last.payload.v) )
    => /\ out = <<RoomError(last.client, "Room is full")>>
       /\ rooms = before

\* A third socket has asked to join a room of two and was refused.
C3_Witness ==
    /\ last.op = "join-room"
    /\ last.payload \in ValidRoomIds
    /\ Cardinality(MembersBefore(last.payload.v)) = 2
    /\ last.client \notin MembersBefore(last.payload.v)
    /\ Emits("room-error") # {}

\* C4: join-room with an empty or non-string room id emits room-error
\* 'Invalid room ID' to the caller and nothing else (never 'Room is full'),
\* and leaves the Room Store as it was.
C4_InvalidRoomId ==
    (last.op = "join-room" /\ last.payload \in InvalidRoomIds)
    => /\ out = <<RoomError(last.client, "Invalid room ID")>>
       /\ rooms = before

\* A number was given as room id while a room of the store is full, and the
\* join was refused.
C4_Witness ==
    /\ last.op = "join-room"
    /\ last.payload = Num("7")
    /\ \E r \in MapKeys(rooms) : Cardinality(Members(r)) = MAX_PARTICIPANTS
    /\ Emits("room-error") # {}

\* C5: an offer, answer or ice-candidate from a socket that is not a member of
\* the room its payload names emits signaling-error 'Not a room participant'
\* to the sender and nothing else: nothing is relayed.
C5_NotParticipant ==
    (last.op \in RelayKinds /\ last.client \notin Members(last.payload.roomId.v))
    => out = <<SignalingError(last.client, "Not a room participant")>>

\* The sender of an answer is a member of another room than the one it named
\* (which exists), and got signaling-error.
C5_Witness ==
    /\ last.op = "answer"
    /\ MapHas(rooms, last.payload.roomId.v)
    /\ last.client \notin Members(last.payload.roomId.v)
    /\ \E r \in MapKeys(rooms) : last.client \in Members(r)
    /\ Emits("signaling-error") # {}

\* The data a relay of the last event must carry.
Relayed ==
    CASE last.op = "offer" ->
           [offer |-> last.payload.offer, senderId |-> last.client]
      [] last.op = "answer" ->
           [answer |-> last.payload.answer, senderId |-> last.client]
      [] last.op = "ice-candidate" ->
           [candidate |-> last.payload.candidate, senderId |-> last.client]

\* C6: an offer, answer or ice-candidate from a member of the room it names
\* causes exactly one emit; it is addressed to targetPeerId, has the kind of
\* the inbound event, carries the inbound body unchanged and the sender's own
\* id as senderId, and reaches the target when the target is another
\* connected socket.
C6_RelayVerbatim ==
    (last.op \in RelayKinds /\ last.client \in Members(last.payload.roomId.v))
    => /\ Len(out) = 1
       /\ out[1].to = last.payload.targetPeerId
       /\ out[1].ev = last.op
       /\ out[1].data = Relayed
       /\ out[1].data.senderId = last.client
       /\ (last.payload.targetPeerId \in connected \ {last.client})
             => last.payload.targetPeerId \in out[1].rcv

\* A member has sent an answer to the other member of its room, who got it.
C6_Witness ==
    /\ last.op = "answer"
    /\ last.client \in Members(last.payload.roomId.v)
    /\ last.payload.targetPeerId \in Members(last.payload.roomId.v) \ {last.client}
    /\ Received(last.payload.targetPeerId, "answer",
                [answer |-> last.payload.answer, senderId |-> last.client]) = 1

\* C7: when a socket disconnects that was the sole member of room R, R is no
\* longer in the Room Store and every peer-disconnected emitted is addressed
\* to a remaining member of another room; a room absent from the store enters
\* it only by a join-room naming it; and a join-room on an absent room
\* succeeds, leaves the room with the joiner as its only member and emits
\* room-joined to the joiner and nothing else (no new-peer).
C7_SoleMemberLeaves ==
    /\ last.op = "disconnect" =>
          \A R \in MapKeys(before) :
             MembersBefore(R) = {last.client} =>
                /\ ~MapHas(rooms, R)
                /\ \A i \in 1..Len(out) :
                      \E r \in MapKeys(before) \ {R} :
                         /\ last.client \in MembersBefore(r)
                         /\ out[i].to \in MembersBefore(r) \ {last.client}
    /\ MapKeys(rooms) \ MapKeys(before) \subseteq
          (IF last.op = "join-room" /\ last.payload \in ValidRoomIds
           THEN {last.payload.v} ELSE {})
    /\ ( /\ last.op = "join-room"
         /\ last.payload \in ValidRoomIds
         /\ ~MapHas(before, last.payload.v) )
       => /\ Members(last.payload.v) = {last.client}
          /\ out = <<RoomJoined(last.client, last.payload.v)>>

\* The sole member of a room has disconnected while it also was in a second
\* room that keeps a member.
C7_Witness ==
    /\ last.op = "disconnect"
    /\ \E R \in MapKeys(before) :
          /\ MembersBefore(R) = {last.client}
          /\ ~MapHas(rooms, R)
    /\ \E r \in MapKeys(rooms) : last.client \in MembersBefore(r)

\* C8 (as claimed): when a socket c disconnects that was one of two members
\* of room R, the remaining member receives peer-disconnected{peerId: c}
\* exactly once, c receives no peer-disconnected, and R stays in the Room
\* Store with the remaining member as its only member.
C8_PeerDisconnected ==
    last.op = "disconnect" =>
       \A R \in MapKeys(before) :
          (last.client \in MembersBefore(R) /\ Cardinality(MembersBefore(R)) = 2)
          => /\ \A m \in MembersBefore(R) \ {last.client} :
                   Received(m, "peer-disconnected", [peerId |-> last.client]) = 1
             /\ \A i \in Emits("peer-disconnected") : last.client \notin out[i].rcv
             /\ Members(R) = MembersBefore(R) \ {last.client}

\* C9 (as claimed): when B joins a room whose only member is A, A receives
\* new-peer{peerId: B} exactly once and B receives new-peer{peerId: A}
\* exactly once; when a socket joins an absent room it receives room-joined
\* and no new-peer is emitted.
C9_NewPeer ==
    (last.op = "join-room" /\ last.payload \in ValidRoomIds) =>
       /\ \A A \in Conns \ {last.client} :
             MembersBefore(last.payload.v) = {A} =>
                /\ Received(A, "new-peer", [peerId |-> last.client]) = 1
                /\ Received(last.client, "new-peer", [peerId |-> A]) = 1
       /\ ~MapHas(before, last.payload.v) =>
             /\ Received(last.client, "room-joined",
                         [success |-> TRUE, roomId |-> last.payload.v]) = 1
             /\ Emits("new-peer") = {}

\* C10 (as claimed): every socket id is a member of at most one room of the
\* Room Store.
C10_OneRoomPerConnection ==
    \A c \in Conns : Cardinality({r \in MapKeys(rooms) : c \in Members(r)}) <= 1

\* The last event was a relay sent by a member of the room it names.
RelayByMember ==
    last.op \in RelayKinds /\ last.client \in Members(last.payload.roomId.v)

\* The relay of the last event reached its target.
ReachedTarget ==
    \E i \in 1..Len(out) :
       out[i].ev = last.op /\ last.payload.targetPeerId \in out[i].rcv

\* The rooms socket c is a member of.
RoomsOf(c) == {r \in MapKeys(rooms) : c \in Members(r)}

\* C11 (as claimed): a relay by a member of the room it names reaches
\* whatever connected targetPeerId the caller supplies, member of the room or
\* not, and the sender gets no signaling-error.
C11_AnyTarget ==
    RelayByMember =>
       /\ Emits("signaling-error") = {}
       /\ last.payload.targetPeerId \in connected => ReachedTarget

\* C11 (amended): the same, except that the second declaration, which relays
\* with client.to(...), never delivers to the sender itself.
C11_AnyOtherTarget ==
    RelayByMember =>
       /\ Emits("signaling-error") = {}
       /\ ( /\ last.payload.targetPeerId \in connected
            /\ ~(variant = 2 /\ last.payload.targetPeerId = last.client) )
          => ReachedTarget

\* A member has sent an offer to a connected socket that is in no room, and
\* that socket got it.
C11_Witness ==
    /\ last.op = "offer"
    /\ RelayByMember
    /\ last.payload.targetPeerId \in connected \ {last.client}
    /\ RoomsOf(last.payload.targetPeerId) = {}
    /\ ReachedTarget

\* C12: two join-room events by distinct sockets a and b, neither a member,
\* handled one right after the other (in either order) on a room that holds
\* exactly 1 member: the first succeeds and makes the room hold 2, the second
\* gets room-error 'Room is full' and leaves the Room Store as the first left
\* it; the room never holds 3.
C12_JoinRace ==
    [][ ( /\ last.op = "join-room"
          /\ last'.op = "join-room"
          /\ last.payload \in ValidRoomIds
          /\ last'.payload = last.payload
          /\ last'.client # last.client
          /\ Cardinality(MembersBefore(last.payload.v)) = 1
          /\ last.client \notin MembersBefore(last.payload.v)
          /\ last'.client \notin MembersBefore(last.payload.v) )
        => /\ out[1] = RoomJoined(last.client, last.payload.v)
           /\ Members(last.payload.v) =
                 MembersBefore(last.payload.v) \cup {last.client}
           /\ out' = <<RoomError(last'.client, "Room is full")>>
           /\ rooms' = rooms
           /\ Cardinality(MembersIn(rooms', last.payload.v)) = 2 ]_vars

\* Three sockets are connected and none has ever left; two of them are the
\* members of a room and the third has just been refused there: of the two
\* joins on the room of one, one succeeded and the other failed.
C12_Witness ==
    /\ nextConn = 3
    /\ connected = {SocketIds[1], SocketIds[2], SocketIds[3]}
    /\ last.op = "join-room"
    /\ last.payload \in ValidRoomIds
    /\ Cardinality(Members(last.payload.v)) = 2
    /\ last.client \notin Members(last.payload.v)
    /\ out = <<RoomError(last.client, "Room is full")>>

\* The number of members of room r after and before the last event.
Occupancy(r) == Cardinality(Members(r))

OccupancyBefore(r) == Cardinality(MembersBefore(r))

\* C13: one event changes the member count of any room by at most 1; a count
\* only grows by a successful join-room naming that room, and only shrinks by
\* a disconnect; a join-room on a room whose count is 2 is refused with
\* 'Room is full' and changes no count.
C13_Occupancy ==
    \A r \in MapKeys(rooms) \cup MapKeys(before) :
       /\ Occupancy(r) - OccupancyBefore(r) \in {-1, 0, 1}
       /\ Occupancy(r) > OccupancyBefore(r) =>
             /\ JoinSucceeded
             /\ last.payload = Str(r)
       /\ Occupancy(r) < OccupancyBefore(r) => last.op = "disconnect"
       /\ (last.op = "join-room" /\ last.payload = Str(r) /\ OccupancyBefore(r) = 2)
             => /\ out = <<RoomError(last.client, "Room is full")>>
                /\ rooms = before

\* One disconnect has taken a room from 2 members to 1 and another room from
\* 1 member to absent.
C13_Witness ==
    /\ last.op = "disconnect"
    /\ \E r1, r2 \in MapKeys(before) :
          /\ OccupancyBefore(r1) = 2 /\ Occupancy(r1) = 1
          /\ OccupancyBefore(r2) = 1 /\ Occupancy(r2) = 0

\* C14 (as claimed): after the disconnect of socket c, c is a member of no
\* room; every room c was the only member of is gone; every other room c was
\* in keeps its other members, and each of them has received
\* peer-disconnected{peerId: c}.
C14_DisconnectCleansAll ==
    last.op = "disconnect" =>
       \A r \in MapKeys(before) :
          last.client \in MembersBefore(r) =>
             /\ last.client \notin Members(r)
             /\ MembersBefore(r) = {last.client} => ~MapHas(rooms, r)
             /\ MembersBefore(r) # {last.client} =>
                   /\ Members(r) = MembersBefore(r) \ {last.client}
                   /\ \A m \in Members(r) :
                         Received(m, "peer-disconnected",
                                  [peerId |-> last.client]) >= 1

\* C16: a join-room with a valid id on a room of fewer than 2 members emits
\* room-joined{success: true, roomId} to the caller exactly once and as its
\* first emit, so before every new-peer of that join, with the caller a
\* member of the room; any other join-room emits no room-joined.
C16_JoinedFirst ==
    last.op = "join-room" =>
       IF /\ last.payload \in ValidRoomIds
          /\ OccupancyBefore(last.payload.v) < MAX_PARTICIPANTS
       THEN /\ Len(out) >= 1
            /\ out[1] = RoomJoined(last.client, last.payload.v)
            /\ Emits("room-joined") = {1}
            /\ \A i \in Emits("new-peer") : i > 1
            /\ last.client \in Members(last.payload.v)
       ELSE Emits("room-joined") = {}

\* A join has succeeded into a room that held a member: room-joined is
\* followed by new-peer emits.
C16_Witness ==
    /\ JoinSucceeded
    /\ OccupancyBefore(last.payload.v) = 1
    /\ last.client \notin MembersBefore(last.payload.v)
    /\ Emits("new-peer") # {}

\* C17: a connect event and every offer, answer or ice-candidate event,
\* relayed or refused, leaves the Room Store exactly as it was.
C17_RelayFrame ==
    last.op \in RelayKinds \cup {"connect"} => rooms = before

\* An ice-candidate was refused with signaling-error while the Room Store
\* holds a room.
C17_Witness ==
    /\ last.op = "ice-candidate"
    /\ Emits("signaling-error") # {}
    /\ rooms # <<>>
    /\ rooms = before

\* C18: every id in the member set of any room is the id of a connected
\* socket; so when no connected socket is a member of a room (every socket
\* that joined has disconnected), the Room Store is empty.
C18_NoGhostMembers ==
    /\ \A r \in MapKeys(rooms) : Members(r) \subseteq connected
    /\ (\A c \in connected : RoomsOf(c) = {}) => rooms = <<>>

\* Two sockets were connected, the store held a room, and the last of them
\* has disconnected: the store is empty.
C18_Witness ==
    /\ last.op = "disconnect"
    /\ nextConn >= 2
    /\ connected = {}
    /\ before # <<>>
    /\ rooms = <<>>

\* The emits that address one socket by its id: every relay, and the
\* new-peer and peer-disconnected of the first declaration (the second
\* declaration broadcasts new-peer to the room).
AddressedToSocket(e) ==
    \/ e.ev \in RelayKinds
    \/ e.ev \in {"new-peer", "peer-disconnected"} /\ variant = 1

\* C19 (as claimed): an offer, answer, ice-candidate, new-peer or
\* peer-disconnected addressed to a socket id reaches no socket other than
\* the one with that id, also when another socket has joined a room whose id
\* is that socket id.
C19_OnlyAddressee ==
    \A i \in 1..Len(out) :
       AddressedToSocket(out[i]) => out[i].rcv \subseteq {out[i].to}

\* C20: a join-room by a socket that is already a member of the room leaves
\* the Room Store as it was and delivers no new-peer about the caller to the
\* caller; a sole member gets room-joined again and nothing else; a member of
\* a room of 2 gets room-error 'Room is full'.
C20_RejoinIdempotent ==
    ( /\ last.op = "join-room"
      /\ last.payload \in ValidRoomIds
      /\ last.client \in MembersBefore(last.payload.v) )
    => /\ rooms = before
       /\ Received(last.client, "new-peer", [peerId |-> last.client]) = 0
       /\ OccupancyBefore(last.payload.v) = 1 =>
             out = <<RoomJoined(last.client, last.payload.v)>>
       /\ OccupancyBefore(last.payload.v) = 2 =>
             out = <<RoomError(last.client, "Room is full")>>

\* The sole member of a room has joined it again while it is a member of a
\* second room too.
C20_Witness ==
    /\ JoinSucceeded
    /\ MembersBefore(last.payload.v) = {last.client}
    /\ Cardinality(RoomsOf(last.client)) = 2

\* C15: after every event, for every connected socket m and every other
\* socket c, the most recent of new-peer{c} / peer-disconnected{c} delivered
\* to m is new-peer{c} exactly when m and c are co-members of some room, and
\* m never received peer-disconnected{c} without an earlier new-peer{c}.
CoMembers(m, c) == \E r \in MapKeys(rooms) : {m, c} \subseteq Members(r)

C15_ConsistentView ==
    tracking =>
        \A m \in connected : \A c \in Conns \ {m} :
            /\ (view[m][c] = "new-peer") <=> CoMembers(m, c)
            /\ view[m][c] # "unannounced"

====
